---- MODULE Spec2Model ----
(***************************************************************************)
(* A model of github.com/LPX3F8/orderedmap: OrderedMap[K, V] keeps a       *)
(* glist.List[K] of keys (the order sequence), a map[K]*Item[K, V] (the    *)
(* index) and one sync.RWMutex.  Every method is split at the points where *)
(* another goroutine can observe it: taking the lock, each write to keys   *)
(* or items, and releasing the lock.                                       *)
(***************************************************************************)
EXTENDS Integers, Sequences, FiniteSets, TLC

\* ---------------------------------------------------------------- bounds
NumKeys == 3        \* keys used by the single-goroutine specification
NumVals == 2        \* values used by the single-goroutine specification
NumThreads == 2     \* goroutines of the concurrent specifications
NumConcKeys == 1    \* keys used by the concurrent specification SpecConc
MaxFilters == 2     \* filters passed to one traversal

Keys == 1..NumKeys
Vals == 1..NumVals
Threads == 1..NumThreads
SeqThreads == {1}
ConcKeys == 1..NumConcKeys

VARIABLES
    keys,    \* m.keys: the list, front to back, of elements [id, Value]
    items,   \* m.items: key -> Item [k, v, e]
    mu,      \* m.mu: [w |-> writer or 0, r |-> set of readers]
    pc,      \* per goroutine: the statement it is at
    op,      \* per goroutine: the call it is in, or made last
    ret,     \* per goroutine: what its last call returned
    loc,     \* per goroutine: the local variables of the call
    pre,     \* history: keys and items when the last call began
    log,     \* history: the Store calls of new keys since New / Clear
    caller   \* per goroutine: the local variables of the calling function

vars == <<keys, items, mu, pc, op, ret, loc, pre, log, caller>>
\* what the methods of the container do not touch
hist == <<pre, log, caller>>

\* ------------------------------------------------------- values, records
ZeroV == 0                                   \* var v V
NilId == <<0, 0>>                            \* the nil address
NilElem == [id |-> NilId, Value |-> 0]       \* (*glist.Element[K])(nil)
NilItem == [k |-> 0, v |-> ZeroV, e |-> NilId]   \* (*Item[K, V])(nil)
NoItems == [x \in {} |-> NilItem]            \* map[K]*Item[K, V]{}

\* a bug to compare with: the item does not get its list element
newItem_NoElem(k, v, e) == [k |-> k, v |-> v, e |-> NilId]
newItem(k, v, e) == [k |-> k, v |-> v, e |-> e]

NoOp == [name |-> "none", k |-> 0, v |-> 0]
NoRet == [v |-> ZeroV, ok |-> FALSE, n |-> 0, item |-> NilItem,
          s |-> <<>>, err |-> "", calls |-> <<>>]
NoCaller == [key |-> 0, v |-> ZeroV, walk |-> <<>>]
NoLoc == [ctx |-> "", e |-> NilId, actual |-> ZeroV, loaded |-> FALSE,
          cur |-> NilId, idx |-> 0, num |-> 0, n |-> 0, out |-> <<>>,
          skip |-> FALSE, calls |-> <<>>, kb |-> <<>>, vb |-> <<>>,
          err |-> ""]

\* ------------------------------------------------------------ glist.List
ListLen(l) == Len(l)
ListFront(l) == IF l = <<>> THEN NilElem ELSE l[1]
ListBack(l) == IF l = <<>> THEN NilElem ELSE l[Len(l)]
PosOf(l, e) == IF \E i \in 1..Len(l) : l[i].id = e
               THEN CHOOSE i \in 1..Len(l) : l[i].id = e ELSE 0
\* a bug to compare with: after the last element comes the first again
ListNext_Ring(l, e) == LET i == PosOf(l, e)
                       IN IF i = 0 THEN NilElem
                          ELSE IF i = Len(l) THEN l[1] ELSE l[i + 1]
ListNext(l, e) == LET i == PosOf(l, e)
                  IN IF i = 0 \/ i = Len(l) THEN NilElem ELSE l[i + 1]
ListPrev(l, e) == LET i == PosOf(l, e)
                  IN IF i <= 1 THEN NilElem ELSE l[i - 1]
\* a bug to compare with: the element is put in front
PushFront(l, k, id) == <<[id |-> id, Value |-> k]>> \o l
PushBack(l, k, id) == Append(l, [id |-> id, Value |-> k])
\* a bug to compare with: the last element is unlinked, whatever e is
ListRemove_Back(l, e) == IF l = <<>> THEN l ELSE SubSeq(l, 1, Len(l) - 1)
ListRemove(l, e) == SelectSeq(l, LAMBDA x : x.id # e)

\* the address of a newly allocated element for key k: one that nothing
\* refers to.  Addresses are named <<k, n>>, n the least number that is free.
UsedIds == {keys[i].id : i \in 1..Len(keys)}
           \cup {items[k].e : k \in DOMAIN items}
           \cup {loc[t].e : t \in Threads} \cup {loc[t].cur : t \in Threads}
           \cup {ret[t].item.e : t \in Threads}
NewElemId(k) ==
    LET n == CHOOSE n \in 1..(Cardinality(UsedIds) + 1) :
                 /\ <<k, n>> \notin UsedIds
                 /\ \A m \in 1..(n - 1) : <<k, m>> \in UsedIds
    IN <<k, n>>

\* ---------------------------------------------------------- sync.RWMutex
\* w: the goroutine that holds the write lock, r: those that hold the read
\* lock, p: the goroutine whose Lock call is pending (it has told the
\* readers to wait and waits for those that hold the lock), 0 for none
NewMutex == [w |-> 0, r |-> {}, p |-> 0]
\* a bug to compare with: Lock does not wait for the readers
CanLock_NoReaders == mu.w = 0
CanLock == mu.w = 0 /\ mu.r = {}
CanRLock == mu.w = 0 /\ mu.p = 0
Lock(t) == [mu EXCEPT !.w = t, !.p = 0]
Unlock(t) == [mu EXCEPT !.w = 0]
RLock(t) == [mu EXCEPT !.r = @ \cup {t}]
\* a bug to compare with: the read lock is not given back
RUnlock_Forget(t) == mu
RUnlock(t) == [mu EXCEPT !.r = @ \ {t}]
\* the statements at which a goroutine calls m.mu.Lock() and m.mu.RLock()
LockPcs == {"store_lock", "del_lock", "clr_lock"}
RLockPcs == {"load_rlock", "len_rlock", "front_rlock", "back_rlock",
             "item_rlock", "travel_rlock"}

\* ------------------------------------------------------------------ New
Init ==
    /\ keys = <<>>
    /\ items = NoItems
    /\ mu = NewMutex
    /\ pc = [t \in Threads |-> "idle"]
    /\ op = [t \in Threads |-> NoOp]
    /\ ret = [t \in Threads |-> NoRet]
    /\ loc = [t \in Threads |-> NoLoc]
    /\ pre = [keys |-> <<>>, items |-> NoItems]
    /\ log = [from |-> "new", ok |-> TRUE, kv |-> <<>>]
    /\ caller = [t \in Threads |-> NoCaller]

\* a goroutine enters a method
Begin(t, o, entry, ctx) ==
    /\ pc[t] = "idle"
    /\ op' = [op EXCEPT ![t] = o]
    /\ pc' = [pc EXCEPT ![t] = entry]
    /\ ret' = [ret EXCEPT ![t] = NoRet]
    /\ loc' = [loc EXCEPT ![t] = [NoLoc EXCEPT !.ctx = ctx]]
    /\ UNCHANGED <<keys, items, mu>>

\* the first half of m.mu.Lock(): no other Lock call is pending or holds
\* the lock; from now on RLock calls wait
Lock_Announce(t) ==
    /\ pc[t] \in LockPcs
    /\ mu.w = 0 /\ mu.p = 0
    /\ mu' = [mu EXCEPT !.p = t]
    /\ UNCHANGED <<keys, items, pc, op, ret, loc>>

\* a method returns r to its caller
Finish(t, r) ==
    /\ pc' = [pc EXCEPT ![t] = "idle"]
    /\ ret' = [ret EXCEPT ![t] = r]
    /\ loc' = [loc EXCEPT ![t] = NoLoc]

Goto(t, label) == pc' = [pc EXCEPT ![t] = label]

\* ---------------------------------------------------------------- Store
Store(t, k, v) ==
    Begin(t, [name |-> "Store", k |-> k, v |-> v], "store_lock", "")

\* m.mu.Lock()
Store_Lock(t) ==
    /\ pc[t] = "store_lock"
    /\ CanLock
    /\ mu' = Lock(t)
    /\ Goto(t, "store_check")
    /\ UNCHANGED <<keys, items, op, ret, loc>>

\* a bug to compare with: the element is pushed without the test of items
Store_Check_NoTest(t) ==
    /\ pc[t] = "store_check"
    /\ keys' = PushBack(keys, op[t].k, NewElemId(op[t].k))
    /\ loc' = [loc EXCEPT ![t].e = NewElemId(op[t].k)]
    /\ Goto(t, "store_set")
    /\ UNCHANGED <<items, mu, op, ret>>

\* if _, ok := m.items[k]; !ok { ... m.keys.PushBack(k) ... }
Store_Check(t) ==
    /\ pc[t] = "store_check"
    /\ IF op[t].k \notin DOMAIN items
       THEN /\ keys' = PushBack(keys, op[t].k, NewElemId(op[t].k))
            /\ loc' = [loc EXCEPT ![t].e = NewElemId(op[t].k)]
            /\ Goto(t, "store_set")
       ELSE /\ Goto(t, "store_unlock")
            /\ UNCHANGED <<keys, loc>>
    /\ UNCHANGED <<items, mu, op, ret>>

\* a bug to compare with: the item is made with the zero value
Store_Set_Zero(t) ==
    /\ pc[t] = "store_set"
    /\ items' = [x \in DOMAIN items \cup {op[t].k} |->
                   IF x = op[t].k THEN newItem(op[t].k, ZeroV, loc[t].e)
                                  ELSE items[x]]
    /\ Goto(t, "store_unlock")
    /\ UNCHANGED <<keys, mu, op, ret, loc>>

\* m.items[k] = newItem(k, v, <the pushed element>, m)
Store_Set(t) ==
    /\ pc[t] = "store_set"
    /\ items' = [x \in DOMAIN items \cup {op[t].k} |->
                   IF x = op[t].k THEN newItem(op[t].k, op[t].v, loc[t].e)
                                  ELSE items[x]]
    /\ Goto(t, "store_unlock")
    /\ UNCHANGED <<keys, mu, op, ret, loc>>

\* defer m.mu.Unlock(); return m
Store_Unlock(t) ==
    /\ pc[t] = "store_unlock"
    /\ mu' = Unlock(t)
    /\ IF loc[t].ctx = "los"
       THEN Goto(t, "los_ret") /\ UNCHANGED <<ret, loc>>
       ELSE Finish(t, NoRet)
    /\ UNCHANGED <<keys, items, op>>

\* ----------------------------------------------------------------- Load
\* the body of Load: the value and whether the key was found
LoadOf(its, k) == IF k \in DOMAIN its THEN [v |-> its[k].v, ok |-> TRUE]
                                      ELSE [v |-> ZeroV, ok |-> FALSE]

Load(t, k) ==
    Begin(t, [name |-> "Load", k |-> k, v |-> 0], "load_rlock", "")

\* m.mu.RLock()
Load_RLock(t) ==
    /\ pc[t] = "load_rlock"
    /\ CanRLock
    /\ mu' = RLock(t)
    /\ Goto(t, "load_body")
    /\ UNCHANGED <<keys, items, op, ret, loc>>

\* the lookup, defer m.mu.RUnlock(), and the return to Load's caller
Load_Body(t) ==
    LET r == LoadOf(items, op[t].k)
    IN /\ pc[t] = "load_body"
       /\ mu' = RUnlock(t)
       /\ IF loc[t].ctx = ""
          THEN Finish(t, [NoRet EXCEPT !.v = r.v, !.ok = r.ok])
          ELSE /\ loc' = [loc EXCEPT ![t].actual = r.v, ![t].loaded = r.ok]
               /\ Goto(t, IF loc[t].ctx = "los" THEN "los_check" ELSE "has_ret")
               /\ UNCHANGED ret
       /\ UNCHANGED <<keys, items, op>>

\* ---------------------------------------------------------- LoadOrStore
LoadOrStore(t, k, v) ==
    Begin(t, [name |-> "LoadOrStore", k |-> k, v |-> v], "load_rlock", "los")

\* a bug to compare with: the given value is returned for a loaded key
LoadOrStore_Check_Given(t) ==
    /\ pc[t] = "los_check"
    /\ IF loc[t].loaded
       THEN Finish(t, [NoRet EXCEPT !.v = op[t].v, !.ok = loc[t].loaded])
       ELSE Goto(t, "store_lock") /\ UNCHANGED <<ret, loc>>
    /\ UNCHANGED <<keys, items, mu, op>>

\* if actual, loaded = m.Load(k); loaded { return actual, loaded }
\* m.Store(k, v)
LoadOrStore_Check(t) ==
    /\ pc[t] = "los_check"
    /\ IF loc[t].loaded
       THEN Finish(t, [NoRet EXCEPT !.v = loc[t].actual, !.ok = loc[t].loaded])
       ELSE Goto(t, "store_lock") /\ UNCHANGED <<ret, loc>>
    /\ UNCHANGED <<keys, items, mu, op>>

\* return actual, loaded   (after m.Store(k, v))
LoadOrStore_Return(t) ==
    /\ pc[t] = "los_ret"
    /\ Finish(t, [NoRet EXCEPT !.v = loc[t].actual, !.ok = loc[t].loaded])
    /\ UNCHANGED <<keys, items, mu, op>>

\* ------------------------------------------------------------------ Has
Has(t, k) ==
    Begin(t, [name |-> "Has", k |-> k, v |-> 0], "load_rlock", "has")

\* _, ok := m.Load(k); return ok
Has_Return(t) ==
    /\ pc[t] = "has_ret"
    /\ Finish(t, [NoRet EXCEPT !.ok = loc[t].loaded])
    /\ UNCHANGED <<keys, items, mu, op>>

\* --------------------------------------------------------------- Delete
Delete(t, k) ==
    Begin(t, [name |-> "Delete", k |-> k, v |-> 0], "del_lock", "")

\* m.mu.Lock()
Delete_Lock(t) ==
    /\ pc[t] = "del_lock"
    /\ CanLock
    /\ mu' = Lock(t)
    /\ Goto(t, "del_remove")
    /\ UNCHANGED <<keys, items, op, ret, loc>>

\* a bug to compare with: the test of ok is inverted, and ele.elements() is
\* called on the nil item of a missing key
Delete_Remove_Inverted(t) ==
    /\ pc[t] = "del_remove"
    /\ IF op[t].k \notin DOMAIN items
       THEN /\ mu' = Unlock(t)
            /\ Finish(t, [NoRet EXCEPT !.err = "nil pointer dereference"])
       ELSE /\ Goto(t, "del_unlock")
            /\ UNCHANGED <<mu, ret, loc>>
    /\ UNCHANGED <<keys, items, op>>

\* if ele, ok := m.items[k]; ok { m.keys.Remove(ele.elements()) ... }
Delete_Remove(t) ==
    /\ pc[t] = "del_remove"
    /\ IF op[t].k \in DOMAIN items
       THEN /\ keys' = ListRemove(keys, items[op[t].k].e)
            /\ Goto(t, "del_delete")
       ELSE /\ Goto(t, "del_unlock")
            /\ UNCHANGED keys
    /\ UNCHANGED <<items, mu, op, ret, loc>>

\* a bug to compare with: the entry of items is left
Delete_Delete_Skip(t) ==
    /\ pc[t] = "del_delete"
    /\ Goto(t, "del_unlock")
    /\ UNCHANGED <<keys, items, mu, op, ret, loc>>

\* delete(m.items, k)
Delete_Delete(t) ==
    /\ pc[t] = "del_delete"
    /\ items' = [x \in DOMAIN items \ {op[t].k} |-> items[x]]
    /\ Goto(t, "del_unlock")
    /\ UNCHANGED <<keys, mu, op, ret, loc>>

\* defer m.mu.Unlock(); return m
Delete_Unlock(t) ==
    /\ pc[t] = "del_unlock"
    /\ mu' = Unlock(t)
    /\ Finish(t, NoRet)
    /\ UNCHANGED <<keys, items, op>>

\* ------------------------------------------------------------------ Len
LenCall(t) ==
    Begin(t, [name |-> "Len", k |-> 0, v |-> 0], "len_rlock", "")

\* m.mu.RLock()
Len_RLock(t) ==
    /\ pc[t] = "len_rlock"
    /\ CanRLock
    /\ mu' = RLock(t)
    /\ Goto(t, "len_body")
    /\ UNCHANGED <<keys, items, op, ret, loc>>

\* defer m.mu.RUnlock(); return m.keys.Len()
Len_Body(t) ==
    /\ pc[t] = "len_body"
    /\ mu' = RUnlock(t)
    /\ Finish(t, [NoRet EXCEPT !.n = ListLen(keys)])
    /\ UNCHANGED <<keys, items, op>>

\* --------------------------------------------------------- Front / Back
\* m.items[n.Value]: a missing key gives the nil *Item
ItemAt(its, k) == IF k \in DOMAIN its THEN its[k] ELSE NilItem

Front(t) ==
    Begin(t, [name |-> "Front", k |-> 0, v |-> 0], "front_rlock", "")

Front_RLock(t) ==
    /\ pc[t] = "front_rlock"
    /\ CanRLock
    /\ mu' = RLock(t)
    /\ Goto(t, "front_body")
    /\ UNCHANGED <<keys, items, op, ret, loc>>

\* if n := m.keys.Front(); n != nil { return m.items[n.Value] }; return nil
Front_Body(t) ==
    LET n == ListFront(keys)
    IN /\ pc[t] = "front_body"
       /\ mu' = RUnlock(t)
       /\ Finish(t, [NoRet EXCEPT !.item = IF n # NilElem
                                            THEN ItemAt(items, n.Value)
                                            ELSE NilItem])
       /\ UNCHANGED <<keys, items, op>>

Back(t) ==
    Begin(t, [name |-> "Back", k |-> 0, v |-> 0], "back_rlock", "")

Back_RLock(t) ==
    /\ pc[t] = "back_rlock"
    /\ CanRLock
    /\ mu' = RLock(t)
    /\ Goto(t, "back_body")
    /\ UNCHANGED <<keys, items, op, ret, loc>>

\* if n := m.keys.Back(); n != nil { return m.items[n.Value] }; return nil
Back_Body(t) ==
    LET n == ListBack(keys)
    IN /\ pc[t] = "back_body"
       /\ mu' = RUnlock(t)
       /\ Finish(t, [NoRet EXCEPT !.item = IF n # NilElem
                                            THEN ItemAt(items, n.Value)
                                            ELSE NilItem])
       /\ UNCHANGED <<keys, items, op>>

\* ---------------------------------------------------------------- Clear
Clear(t) ==
    Begin(t, [name |-> "Clear", k |-> 0, v |-> 0], "clr_lock", "")

\* m.mu.Lock()
Clear_Lock(t) ==
    /\ pc[t] = "clr_lock"
    /\ CanLock
    /\ mu' = Lock(t)
    /\ Goto(t, "clr_keys")
    /\ UNCHANGED <<keys, items, op, ret, loc>>

\* m.keys = glist.New[K]()
Clear_Keys(t) ==
    /\ pc[t] = "clr_keys"
    /\ keys' = <<>>
    /\ Goto(t, "clr_items")
    /\ UNCHANGED <<items, mu, op, ret, loc>>

\* a bug to compare with: items is left as it is
Clear_Items_Skip(t) ==
    /\ pc[t] = "clr_items"
    /\ Goto(t, "clr_unlock")
    /\ UNCHANGED <<keys, items, mu, op, ret, loc>>

\* m.items = map[K]*Item[K, V]{}
Clear_Items(t) ==
    /\ pc[t] = "clr_items"
    /\ items' = NoItems
    /\ Goto(t, "clr_unlock")
    /\ UNCHANGED <<keys, mu, op, ret, loc>>

\* defer m.mu.Unlock(); return m
Clear_Unlock(t) ==
    /\ pc[t] = "clr_unlock"
    /\ mu' = Unlock(t)
    /\ Finish(t, NoRet)
    /\ UNCHANGED <<keys, items, op>>

\* ------------------------------------------ Slice / Reverse / slice / Travel
\* the element of list l at address e
ElemOf(l, e) == IF PosOf(l, e) = 0 THEN NilElem ELSE l[PosOf(l, e)]

\* Travel's hf and nf for the mode of the call
Modes == {"Forward", "Reverse"}
IsForward(o) == o.mode = "Forward"
hf(o, l) == IF IsForward(o) THEN ListFront(l) ELSE ListBack(l)
nf(o, l, e) == IF IsForward(o) THEN ListNext(l, e) ELSE ListPrev(l, e)

\* the filters a caller passes: functions of idx, key and val
Filters == {"val_gt1", "key_gt1", "idx_even"}
Want(f, idx, k, v) ==
    CASE f = "val_gt1" -> v > 1
      [] f = "key_gt1" -> k > 1
      [] f = "idx_even" -> idx % 2 = 0

\* the sequences of at most n filters
RECURSIVE FilterSeqs(_)
FilterSeqs(n) ==
    IF n = 0 THEN {<<>>}
    ELSE FilterSeqs(n - 1)
         \cup {Append(fs, f) : fs \in FilterSeqs(n - 1), f \in Filters}

\* the call a traversal is: its mode, its filters and its visitor
TravelOp(name, mode, fs, vis) ==
    [name |-> name, k |-> 0, v |-> 0, mode |-> mode, fs |-> fs, vis |-> vis]

Slice(t, fs) ==
    Begin(t, TravelOp("Slice", "Forward", fs, "slice"), "slice_make", "")

Reverse(t, fs) ==
    Begin(t, TravelOp("Reverse", "Reverse", fs, "slice"), "slice_make", "")

\* Travel, TravelForward and TravelReverse with a visitor of the caller
Travel(t, mode, fs) ==
    Begin(t, TravelOp("Travel", mode, fs, "visitor"), "travel_rlock", "")

\* Range(f): TravelForward with a visitor that returns what f returns
Range(t) ==
    Begin(t, TravelOp("Range", "Forward", <<>>, "range"), "travel_rlock", "")

\* slice := make([]V, m.keys.Len()); num := 0      (no lock is held)
Slice_Make(t) ==
    /\ pc[t] = "slice_make"
    /\ loc' = [loc EXCEPT ![t].n = ListLen(keys), ![t].num = 0, ![t].out = <<>>]
    /\ Goto(t, "travel_rlock")
    /\ UNCHANGED <<keys, items, mu, op, ret>>

\* m.mu.RLock(); ...; e := hf()
Travel_RLock(t) ==
    /\ pc[t] = "travel_rlock"
    /\ CanRLock
    /\ mu' = RLock(t)
    /\ loc' = [loc EXCEPT ![t].cur = hf(op[t], keys).id, ![t].idx = 0]
    /\ Goto(t, "travel_loop")
    /\ UNCHANGED <<keys, items, op, ret>>

\* a bug to compare with: the index handed over is idx, not idx-1
IdxArg_OneBased(idx) == idx
\* the index handed to the filters and the visitor after idx++
IdxArg(idx) == idx - 1

\* a bug to compare with: an item is dropped only when no filter wants it
FirstDrop_Or(fs, idx, k, v) ==
    IF \E i \in 1..Len(fs) : Want(fs[i], idx, k, v) THEN 0 ELSE Len(fs)
\* for _, filter := range filters { if drop = !filter(...); drop { break } }
\* the place of the filter the loop breaks at, 0 when it runs to its end
FirstDrop(fs, idx, k, v) ==
    IF \E i \in 1..Len(fs) : ~Want(fs[i], idx, k, v)
    THEN CHOOSE i \in 1..Len(fs) :
             /\ ~Want(fs[i], idx, k, v)
             /\ \A j \in 1..(i - 1) : Want(fs[j], idx, k, v)
    ELSE 0

\* the calls of the filters that loop makes, f the place of the filter
FilterCalls(fs, idx, k, v) ==
    LET d == FirstDrop(fs, idx, k, v)
    IN [i \in 1..(IF d = 0 THEN Len(fs) ELSE d) |->
          [f |-> i, idx |-> idx, k |-> k, v |-> v, r |-> Want(fs[i], idx, k, v)]]

\* the call of the visitor, which returned r
VisitorCall(idx, k, v, r) == [f |-> 0, idx |-> idx, k |-> k, v |-> v, r |-> r]

\* a bug to compare with: skip does not end the loop
LoopEnds_NoBreak(l) == l.cur = NilId
\* e == nil, or the visitor returned skip and the loop broke
LoopEnds(l) == l.cur = NilId \/ l.skip

\* one turn of for e := hf(); e != nil; e = nf(e).  slice's visitor is
\* slice[num] = val; num++; return false, the visitor of a caller returns
\* what it likes, and the visitor of Range returns what f returned.  A nil
\* item or an index past the buffer panics; the deferred RUnlock runs.
Travel_Visit(t) ==
    LET l == loc[t]
        e == ElemOf(keys, l.cur)
        item == ItemAt(items, e.Value)
        idx == l.idx + 1
        arg == IdxArg(idx)
        fc == FilterCalls(op[t].fs, arg, item.k, item.v)
        drop == FirstDrop(op[t].fs, arg, item.k, item.v) # 0
        next == nf(op[t], keys, e.id).id
    IN /\ pc[t] = "travel_loop"
       /\ ~LoopEnds(l)
       /\ IF item = NilItem
          THEN /\ mu' = RUnlock(t)
               /\ Finish(t, [NoRet EXCEPT !.err = "nil pointer dereference"])
          ELSE IF drop
          THEN /\ loc' = [loc EXCEPT ![t].idx = idx,
                                     ![t].calls = @ \o fc,
                                     ![t].cur = next]
               /\ UNCHANGED <<mu, pc, ret>>
          ELSE IF op[t].vis = "slice"
          THEN IF l.num >= l.n
               THEN /\ mu' = RUnlock(t)
                    /\ Finish(t, [NoRet EXCEPT !.err = "index out of range"])
               ELSE /\ loc' = [loc EXCEPT
                           ![t].idx = idx,
                           ![t].calls = @ \o fc \o
                               <<VisitorCall(arg, item.k, item.v, FALSE)>>,
                           ![t].out = Append(@, item.v),
                           ![t].num = @ + 1,
                           ![t].cur = next]
                    /\ UNCHANGED <<mu, pc, ret>>
          ELSE \E r \in BOOLEAN :
                    /\ loc' = [loc EXCEPT
                           ![t].idx = idx,
                           ![t].calls = @ \o fc \o
                               <<VisitorCall(arg, item.k, item.v, r)>>,
                           ![t].skip = r,
                           ![t].cur = IF r THEN l.cur ELSE next]
                    /\ UNCHANGED <<mu, pc, ret>>
       /\ UNCHANGED <<keys, items, op>>

\* the loop has ended: defer m.mu.RUnlock(); slice returns slice[:num]
Travel_Return(t) ==
    /\ pc[t] = "travel_loop"
    /\ LoopEnds(loc[t])
    /\ mu' = RUnlock(t)
    /\ Finish(t, [NoRet EXCEPT !.s = loc[t].out, !.n = loc[t].num,
                               !.calls = loc[t].calls])
    /\ UNCHANGED <<keys, items, op>>

\* ------------------------------------------------------ history variables
\* the log after call o returned: the Store of a key not stored before is
\* appended, Clear starts the log again, the Store of a stored key ends it
LogAfter(o) ==
    IF o.name = "Clear" THEN [from |-> "clear", ok |-> TRUE, kv |-> <<>>]
    ELSE IF o.name # "Store" THEN log
    ELSE IF log.ok /\ \A i \in 1..Len(log.kv) : log.kv[i].k # o.k
         THEN [log EXCEPT !.kv = Append(@, [k |-> o.k, v |-> o.v])]
    ELSE [from |-> "none", ok |-> FALSE, kv |-> <<>>]

\* goroutine t took a step: when it began a call, record the container
RecPre(t) ==
    /\ pre' = IF pc[t] = "idle" THEN [keys |-> keys, items |-> items] ELSE pre
    /\ log' = log
    /\ caller' = caller

\* goroutine t took a step: when a call returned, record it in the log
RecLog(t) ==
    /\ log' = IF pc[t] # "idle" /\ pc'[t] = "idle" THEN LogAfter(op[t]) ELSE log
    /\ pre' = pre
    /\ caller' = caller

\* the value the traversing specifications store with key k: another number
\* than k, and not in the order of the keys
ValOf(k) == (k % NumVals) + 1

\* ---------------------------------------------------------- MarshalJSON
\* bytes are sequences of tokens: the runes MarshalJSON writes itself, and
\* what _customJson.Marshal makes of a key and of a value
Rune(c) == [t |-> c, x |-> 0]
EncKey(k) == [t |-> "key", x |-> k]
EncVal(v) == [t |-> "val", x |-> v]
\* e.Value of the element at address e, which is set once by PushBack
ValueOf(e) == e[1]

MarshalJSON(t) ==
    Begin(t, [name |-> "MarshalJSON", k |-> 0, v |-> 0], "mj_front", "")

\* buf.WriteRune('{'); e := m.keys.Front()        (no lock is taken)
Marshal_Front(t) ==
    /\ pc[t] = "mj_front"
    /\ loc' = [loc EXCEPT ![t].out = <<Rune("{")>>,
                          ![t].cur = ListFront(keys).id]
    /\ Goto(t, "mj_key")
    /\ UNCHANGED <<keys, items, mu, op, ret>>

\* e != nil; keyBytes, err = _customJson.Marshal(e.Value), which fails or
\* not; if err != nil { break }
Marshal_Key(t) ==
    LET kb == EncKey(ValueOf(loc[t].cur))
    IN /\ pc[t] = "mj_key"
       /\ loc[t].cur # NilId
       /\ \E ok \in BOOLEAN :
             /\ loc' = [loc EXCEPT
                    ![t].calls = Append(@, [x |-> kb, ok |-> ok]),
                    ![t].kb = IF ok THEN <<kb>> ELSE <<>>,
                    ![t].err = IF ok THEN "" ELSE "encode"]
             /\ Goto(t, IF ok THEN "mj_val" ELSE "mj_ret")
       /\ UNCHANGED <<keys, items, mu, op, ret>>

\* valBytes, err = _customJson.Marshal(m.items[e.Value].Value()); Value()
\* of the nil item of a missing key panics; if err != nil { break }
Marshal_Val(t) ==
    LET item == ItemAt(items, ValueOf(loc[t].cur))
        vb == EncVal(item.v)
    IN /\ pc[t] = "mj_val"
       /\ IF item = NilItem
          THEN Finish(t, [NoRet EXCEPT !.err = "nil pointer dereference"])
          ELSE \E ok \in BOOLEAN :
                 /\ loc' = [loc EXCEPT
                        ![t].calls = Append(@, [x |-> vb, ok |-> ok]),
                        ![t].vb = IF ok THEN <<vb>> ELSE <<>>,
                        ![t].err = IF ok THEN "" ELSE "encode"]
                 /\ Goto(t, IF ok THEN "mj_write" ELSE "mj_ret")
                 /\ UNCHANGED ret
       /\ UNCHANGED <<keys, items, mu, op>>

\* a bug to compare with: the comma is written after the last pair too
Marshal_Write_Comma(t) ==
    /\ pc[t] = "mj_write"
    /\ loc' = [loc EXCEPT ![t].out =
           @ \o loc[t].kb \o <<Rune(":")>> \o loc[t].vb \o <<Rune(",")>>]
    /\ Goto(t, "mj_next")
    /\ UNCHANGED <<keys, items, mu, op, ret>>

\* buf.Write(keyBytes); buf.WriteRune(':'); buf.Write(valBytes)
\* if e.Next() != nil { buf.WriteRune(',') }
Marshal_Write(t) ==
    /\ pc[t] = "mj_write"
    /\ loc' = [loc EXCEPT ![t].out =
           @ \o loc[t].kb \o <<Rune(":")>> \o loc[t].vb
             \o (IF ListNext(keys, loc[t].cur) # NilElem
                 THEN <<Rune(",")>> ELSE <<>>)]
    /\ Goto(t, "mj_next")
    /\ UNCHANGED <<keys, items, mu, op, ret>>

\* e = e.Next()
Marshal_Next(t) ==
    /\ pc[t] = "mj_next"
    /\ loc' = [loc EXCEPT ![t].cur = ListNext(keys, loc[t].cur).id]
    /\ Goto(t, "mj_key")
    /\ UNCHANGED <<keys, items, mu, op, ret>>

\* a bug to compare with: the bytes written so far come with the error
Marshal_Return_Partial(t) ==
    /\ \/ pc[t] = "mj_key" /\ loc[t].cur = NilId
       \/ pc[t] = "mj_ret"
    /\ IF loc[t].err # ""
       THEN Finish(t, [NoRet EXCEPT !.s = loc[t].out, !.err = loc[t].err,
                                    !.calls = loc[t].calls])
       ELSE Finish(t, [NoRet EXCEPT !.s = Append(loc[t].out, Rune("}")),
                                    !.calls = loc[t].calls])
    /\ UNCHANGED <<keys, items, mu, op>>

\* the loop has ended: if err != nil { return nil, err }
\* buf.WriteRune('}'); return buf.Bytes(), nil
Marshal_Return(t) ==
    /\ \/ pc[t] = "mj_key" /\ loc[t].cur = NilId
       \/ pc[t] = "mj_ret"
    /\ IF loc[t].err # ""
       THEN Finish(t, [NoRet EXCEPT !.s = <<>>, !.err = loc[t].err,
                                    !.calls = loc[t].calls])
       ELSE Finish(t, [NoRet EXCEPT !.s = Append(loc[t].out, Rune("}")),
                                    !.calls = loc[t].calls])
    /\ UNCHANGED <<keys, items, mu, op>>

\* ----------------------------------------------------- Item.Next, Prev
\* i.Next() and i.Prev() of item i, which the caller holds
Item_Next(t, i) ==
    Begin(t, [name |-> "Next", k |-> i.k, v |-> i.v, item |-> i],
          "item_rlock", "")

Item_Prev(t, i) ==
    Begin(t, [name |-> "Prev", k |-> i.k, v |-> i.v, item |-> i],
          "item_rlock", "")

\* i.m.mu.RLock()
Item_RLock(t) ==
    /\ pc[t] = "item_rlock"
    /\ CanRLock
    /\ mu' = RLock(t)
    /\ Goto(t, "item_body")
    /\ UNCHANGED <<keys, items, op, ret, loc>>

\* if n := i.elements().Next(); n != nil { return i.m.items[n.Value] }
\* return nil       (Prev: i.elements().Prev()); defer i.m.mu.RUnlock()
Item_Body(t) ==
    LET e == op[t].item.e
        n == IF op[t].name = "Next" THEN ListNext(keys, e)
                                    ELSE ListPrev(keys, e)
    IN /\ pc[t] = "item_body"
       /\ mu' = RUnlock(t)
       /\ Finish(t, [NoRet EXCEPT !.item = IF n # NilElem
                                            THEN ItemAt(items, n.Value)
                                            ELSE NilItem])
       /\ UNCHANGED <<keys, items, op>>

\* for i := om.Front(); i != nil; i = i.Next(): the next turn of the loop
Walk_Next(t) ==
    /\ op[t].name \in {"Front", "Next"}
    /\ ret[t].item # NilItem
    /\ Item_Next(t, ret[t].item)

\* for i := om.Back(); i != nil; i = i.Prev(): the next turn of the loop
Walk_Prev(t) ==
    /\ op[t].name \in {"Back", "Prev"}
    /\ ret[t].item # NilItem
    /\ Item_Prev(t, ret[t].item)

\* goroutine t took a step: the loop body notes the key of the item that
\* Front, Back, Next or Prev returned; another call starts the notes again
RecWalk(t) ==
    /\ caller' = [caller EXCEPT ![t].walk =
           IF pc[t] = "idle"
           THEN IF op'[t].name \in {"Next", "Prev"} THEN @ ELSE <<>>
           ELSE IF /\ pc'[t] = "idle"
                   /\ op[t].name \in {"Front", "Back", "Next", "Prev"}
                   /\ ret'[t].item # NilItem
                THEN Append(@, ret'[t].item.k)
                ELSE @]
    /\ pre' = pre
    /\ log' = log

\* ------------------------------------------------------ hammerOrderedMap
\* the key goroutine t hammers with, and the keys that are stored before the
\* goroutines start
PrivKey(t) == t
SharedKeys == (NumThreads + 1)..(NumThreads + NumConcKeys)
\* no goroutine has started its loop
NotStarted == \A u \in Threads : caller[u].key = 0

\* before the goroutines start, the test's own goroutine stores keys
Setup_Store(t) ==
    /\ t \in SeqThreads
    /\ NotStarted
    /\ \E k \in SharedKeys : Store(t, k, ValOf(k))
    /\ caller' = caller

\* key = rand.Int(); v = rand.Int(); m.Store(key, v)
Hammer_Store(t) ==
    /\ \A u \in Threads : pc[u] = "idle" \/ caller[u].key # 0
    /\ caller[t].key = 0 \/ op[t].name = "Has"
    /\ \E v \in Vals :
          /\ Store(t, PrivKey(t), v)
          /\ caller' = [caller EXCEPT ![t].key = PrivKey(t), ![t].v = v]

\* val, ok := m.Load(key)
Hammer_Load(t) ==
    /\ caller[t].key # 0 /\ op[t].name = "Store"
    /\ Load(t, caller[t].key)
    /\ caller' = caller

\* m.Delete(key)
Hammer_Delete(t) ==
    /\ caller[t].key # 0 /\ op[t].name = "Load"
    /\ Delete(t, caller[t].key)
    /\ caller' = caller

\* m.Has(key)
Hammer_Has(t) ==
    /\ caller[t].key # 0 /\ op[t].name = "Delete"
    /\ Has(t, caller[t].key)
    /\ caller' = caller

\* goroutine t took a step: until the first goroutine starts its loop, the
\* container is recorded
RecStart(t) ==
    /\ pre' = IF NotStarted THEN [keys |-> keys, items |-> items] ELSE pre
    /\ log' = log

\* goroutine t took a step inside a method
RecStep(t) == RecStart(t) /\ caller' = caller

\* -------------------------------------------------------- specifications
\* one goroutine calls the methods one after the other
Next == \E t \in SeqThreads :
    \/ (\E k \in Keys, v \in Vals : Store(t, k, v)) /\ RecPre(t)
    \/ (\E k \in Keys, v \in Vals : LoadOrStore(t, k, v)) /\ RecPre(t)
    \/ (\E k \in Keys : Load(t, k)) /\ RecPre(t)
    \/ (\E k \in Keys : Has(t, k)) /\ RecPre(t)
    \/ (\E k \in Keys : Delete(t, k)) /\ RecPre(t)
    \/ (LenCall(t)) /\ RecPre(t)
    \/ (Front(t)) /\ RecPre(t)
    \/ (Back(t)) /\ RecPre(t)
    \/ (Clear(t)) /\ RecPre(t)
    \/ (Slice(t, <<>>)) /\ RecPre(t)
    \/ (Reverse(t, <<>>)) /\ RecPre(t)
    \/ Store_Lock(t) /\ RecPre(t)
    \/ Store_Check(t) /\ RecPre(t)
    \/ Store_Set(t) /\ RecPre(t)
    \/ Store_Unlock(t) /\ RecPre(t)
    \/ LoadOrStore_Check(t) /\ RecPre(t)
    \/ LoadOrStore_Return(t) /\ RecPre(t)
    \/ Load_RLock(t) /\ RecPre(t)
    \/ Load_Body(t) /\ RecPre(t)
    \/ Has_Return(t) /\ RecPre(t)
    \/ Delete_Lock(t) /\ RecPre(t)
    \/ Delete_Remove(t) /\ RecPre(t)
    \/ Delete_Delete(t) /\ RecPre(t)
    \/ Delete_Unlock(t) /\ RecPre(t)
    \/ Len_RLock(t) /\ RecPre(t)
    \/ Len_Body(t) /\ RecPre(t)
    \/ Front_RLock(t) /\ RecPre(t)
    \/ Front_Body(t) /\ RecPre(t)
    \/ Back_RLock(t) /\ RecPre(t)
    \/ Back_Body(t) /\ RecPre(t)
    \/ Clear_Lock(t) /\ RecPre(t)
    \/ Clear_Keys(t) /\ RecPre(t)
    \/ Clear_Items(t) /\ RecPre(t)
    \/ Clear_Unlock(t) /\ RecPre(t)
    \/ Slice_Make(t) /\ RecPre(t)
    \/ Travel_RLock(t) /\ RecPre(t)
    \/ Travel_Visit(t) /\ RecPre(t)
    \/ Travel_Return(t) /\ RecPre(t)
Spec == Init /\ [][Next]_vars

\* one goroutine calls Store, Clear and the reading methods one after the
\* other, and the Store calls are logged
NextLog == \E t \in SeqThreads :
    \/ (\E k \in Keys, v \in Vals : Store(t, k, v)) /\ RecLog(t)
    \/ (Clear(t)) /\ RecLog(t)
    \/ (\E k \in Keys : Load(t, k)) /\ RecLog(t)
    \/ (LenCall(t)) /\ RecLog(t)
    \/ (Front(t)) /\ RecLog(t)
    \/ (Back(t)) /\ RecLog(t)
    \/ (Slice(t, <<>>)) /\ RecLog(t)
    \/ (Reverse(t, <<>>)) /\ RecLog(t)
    \/ Store_Lock(t) /\ RecLog(t)
    \/ Store_Check(t) /\ RecLog(t)
    \/ Store_Set(t) /\ RecLog(t)
    \/ Store_Unlock(t) /\ RecLog(t)
    \/ Clear_Lock(t) /\ RecLog(t)
    \/ Clear_Keys(t) /\ RecLog(t)
    \/ Clear_Items(t) /\ RecLog(t)
    \/ Clear_Unlock(t) /\ RecLog(t)
    \/ Load_RLock(t) /\ RecLog(t)
    \/ Load_Body(t) /\ RecLog(t)
    \/ Len_RLock(t) /\ RecLog(t)
    \/ Len_Body(t) /\ RecLog(t)
    \/ Front_RLock(t) /\ RecLog(t)
    \/ Front_Body(t) /\ RecLog(t)
    \/ Back_RLock(t) /\ RecLog(t)
    \/ Back_Body(t) /\ RecLog(t)
    \/ Slice_Make(t) /\ RecLog(t)
    \/ Travel_RLock(t) /\ RecLog(t)
    \/ Travel_Visit(t) /\ RecLog(t)
    \/ Travel_Return(t) /\ RecLog(t)
SpecLog == Init /\ [][NextLog]_vars

\* NumThreads goroutines call the writing methods concurrently; each key is
\* stored with its own number as the value
NextConc == \E t \in Threads :
    \/ (\E k \in ConcKeys : Store(t, k, k)) /\ UNCHANGED hist
    \/ (\E k \in ConcKeys : LoadOrStore(t, k, k)) /\ UNCHANGED hist
    \/ (\E k \in ConcKeys : Delete(t, k)) /\ UNCHANGED hist
    \/ (Clear(t)) /\ UNCHANGED hist
    \/ Store_Lock(t) /\ UNCHANGED hist
    \/ Store_Check(t) /\ UNCHANGED hist
    \/ Store_Set(t) /\ UNCHANGED hist
    \/ Store_Unlock(t) /\ UNCHANGED hist
    \/ LoadOrStore_Check(t) /\ UNCHANGED hist
    \/ LoadOrStore_Return(t) /\ UNCHANGED hist
    \/ Delete_Lock(t) /\ UNCHANGED hist
    \/ Delete_Remove(t) /\ UNCHANGED hist
    \/ Delete_Delete(t) /\ UNCHANGED hist
    \/ Delete_Unlock(t) /\ UNCHANGED hist
    \/ Clear_Lock(t) /\ UNCHANGED hist
    \/ Clear_Keys(t) /\ UNCHANGED hist
    \/ Clear_Items(t) /\ UNCHANGED hist
    \/ Clear_Unlock(t) /\ UNCHANGED hist
    \/ Load_RLock(t) /\ UNCHANGED hist
    \/ Load_Body(t) /\ UNCHANGED hist
SpecConc == Init /\ [][NextConc]_vars

\* NumThreads goroutines each call LoadOrStore once, all on the same key and
\* each with its own value, on the container New returned
RaceCall(t) ==
    /\ op[t] = NoOp
    /\ \E k \in Keys :
          /\ \A u \in Threads : op[u] # NoOp => op[u].k = k
          /\ LoadOrStore(t, k, t)
NextRace == \E t \in Threads :
    \/ RaceCall(t) /\ UNCHANGED hist
    \/ Load_RLock(t) /\ UNCHANGED hist
    \/ Load_Body(t) /\ UNCHANGED hist
    \/ LoadOrStore_Check(t) /\ UNCHANGED hist
    \/ LoadOrStore_Return(t) /\ UNCHANGED hist
    \/ Store_Lock(t) /\ UNCHANGED hist
    \/ Store_Check(t) /\ UNCHANGED hist
    \/ Store_Set(t) /\ UNCHANGED hist
    \/ Store_Unlock(t) /\ UNCHANGED hist
SpecRace == Init /\ [][NextRace]_vars

\* one goroutine stores and deletes keys and traverses the container with
\* filters and with visitors of its own
NextTravel == \E t \in SeqThreads :
    \/ (\E k \in Keys : Store(t, k, ValOf(k))) /\ UNCHANGED hist
    \/ (\E k \in Keys : Delete(t, k)) /\ UNCHANGED hist
    \/ (\E fs \in FilterSeqs(MaxFilters) : Slice(t, fs)) /\ UNCHANGED hist
    \/ (\E fs \in FilterSeqs(MaxFilters) : Reverse(t, fs)) /\ UNCHANGED hist
    \/ (\E mode \in Modes, fs \in FilterSeqs(MaxFilters) :
           Travel(t, mode, fs)) /\ UNCHANGED hist
    \/ (Range(t)) /\ UNCHANGED hist
    \/ Store_Lock(t) /\ UNCHANGED hist
    \/ Store_Check(t) /\ UNCHANGED hist
    \/ Store_Set(t) /\ UNCHANGED hist
    \/ Store_Unlock(t) /\ UNCHANGED hist
    \/ Delete_Lock(t) /\ UNCHANGED hist
    \/ Delete_Remove(t) /\ UNCHANGED hist
    \/ Delete_Delete(t) /\ UNCHANGED hist
    \/ Delete_Unlock(t) /\ UNCHANGED hist
    \/ Slice_Make(t) /\ UNCHANGED hist
    \/ Travel_RLock(t) /\ UNCHANGED hist
    \/ Travel_Visit(t) /\ UNCHANGED hist
    \/ Travel_Return(t) /\ UNCHANGED hist
SpecTravel == Init /\ [][NextTravel]_vars

\* the test stores keys, then NumThreads goroutines run hammerOrderedMap,
\* each on a key of its own
NextHammer == \E t \in Threads :
    \/ Setup_Store(t) /\ RecStart(t)
    \/ Hammer_Store(t) /\ RecStart(t)
    \/ Hammer_Load(t) /\ RecStart(t)
    \/ Hammer_Delete(t) /\ RecStart(t)
    \/ Hammer_Has(t) /\ RecStart(t)
    \/ Store_Lock(t) /\ RecStep(t)
    \/ Store_Check(t) /\ RecStep(t)
    \/ Store_Set(t) /\ RecStep(t)
    \/ Store_Unlock(t) /\ RecStep(t)
    \/ Load_RLock(t) /\ RecStep(t)
    \/ Load_Body(t) /\ RecStep(t)
    \/ Delete_Lock(t) /\ RecStep(t)
    \/ Delete_Remove(t) /\ RecStep(t)
    \/ Delete_Delete(t) /\ RecStep(t)
    \/ Delete_Unlock(t) /\ RecStep(t)
    \/ Has_Return(t) /\ RecStep(t)
SpecHammer == Init /\ [][NextHammer]_vars

\* one goroutine stores and deletes keys and walks the items from the front
\* with Next and from the back with Prev
NextWalk == \E t \in SeqThreads :
    \/ (\E k \in Keys, v \in Vals : Store(t, k, v)) /\ RecWalk(t)
    \/ (\E k \in Keys : Delete(t, k)) /\ RecWalk(t)
    \/ (Front(t)) /\ RecWalk(t)
    \/ (Back(t)) /\ RecWalk(t)
    \/ Walk_Next(t) /\ RecWalk(t)
    \/ Walk_Prev(t) /\ RecWalk(t)
    \/ Store_Lock(t) /\ RecWalk(t)
    \/ Store_Check(t) /\ RecWalk(t)
    \/ Store_Set(t) /\ RecWalk(t)
    \/ Store_Unlock(t) /\ RecWalk(t)
    \/ Delete_Lock(t) /\ RecWalk(t)
    \/ Delete_Remove(t) /\ RecWalk(t)
    \/ Delete_Delete(t) /\ RecWalk(t)
    \/ Delete_Unlock(t) /\ RecWalk(t)
    \/ Front_RLock(t) /\ RecWalk(t)
    \/ Front_Body(t) /\ RecWalk(t)
    \/ Back_RLock(t) /\ RecWalk(t)
    \/ Back_Body(t) /\ RecWalk(t)
    \/ Item_RLock(t) /\ RecWalk(t)
    \/ Item_Body(t) /\ RecWalk(t)
SpecWalk == Init /\ [][NextWalk]_vars

\* one goroutine stores and deletes keys and marshals the container
NextMarshal == \E t \in SeqThreads :
    \/ (\E k \in Keys, v \in Vals : Store(t, k, v)) /\ RecPre(t)
    \/ (\E k \in Keys : Delete(t, k)) /\ RecPre(t)
    \/ (MarshalJSON(t)) /\ RecPre(t)
    \/ Store_Lock(t) /\ RecPre(t)
    \/ Store_Check(t) /\ RecPre(t)
    \/ Store_Set(t) /\ RecPre(t)
    \/ Store_Unlock(t) /\ RecPre(t)
    \/ Delete_Lock(t) /\ RecPre(t)
    \/ Delete_Remove(t) /\ RecPre(t)
    \/ Delete_Delete(t) /\ RecPre(t)
    \/ Delete_Unlock(t) /\ RecPre(t)
    \/ Marshal_Front(t) /\ RecPre(t)
    \/ Marshal_Key(t) /\ RecPre(t)
    \/ Marshal_Val(t) /\ RecPre(t)
    \/ Marshal_Write(t) /\ RecPre(t)
    \/ Marshal_Next(t) /\ RecPre(t)
    \/ Marshal_Return(t) /\ RecPre(t)
SpecMarshal == Init /\ [][NextMarshal]_vars

\* NumThreads goroutines store and delete keys and marshal the container
\* concurrently.  Clear is left out: it puts a new list in m.keys, and a
\* MarshalJSON that is under way goes on in the old one.
NextMarshalConc == \E t \in Threads :
    \/ (\E k \in ConcKeys : Store(t, k, ValOf(k))) /\ UNCHANGED hist
    \/ (\E k \in ConcKeys : Delete(t, k)) /\ UNCHANGED hist
    \/ (MarshalJSON(t)) /\ UNCHANGED hist
    \/ Store_Lock(t) /\ UNCHANGED hist
    \/ Store_Check(t) /\ UNCHANGED hist
    \/ Store_Set(t) /\ UNCHANGED hist
    \/ Store_Unlock(t) /\ UNCHANGED hist
    \/ Delete_Lock(t) /\ UNCHANGED hist
    \/ Delete_Remove(t) /\ UNCHANGED hist
    \/ Delete_Delete(t) /\ UNCHANGED hist
    \/ Delete_Unlock(t) /\ UNCHANGED hist
    \/ Marshal_Front(t) /\ UNCHANGED hist
    \/ Marshal_Key(t) /\ UNCHANGED hist
    \/ Marshal_Val(t) /\ UNCHANGED hist
    \/ Marshal_Write(t) /\ UNCHANGED hist
    \/ Marshal_Next(t) /\ UNCHANGED hist
    \/ Marshal_Return(t) /\ UNCHANGED hist
SpecMarshalConc == Init /\ [][NextMarshalConc]_vars

\* NumThreads goroutines store keys and call Slice() and Reverse()
\* concurrently
NextSliceConc == \E t \in Threads :
    \/ (\E k \in ConcKeys : Store(t, k, ValOf(k))) /\ UNCHANGED hist
    \/ (Slice(t, <<>>)) /\ UNCHANGED hist
    \/ (Reverse(t, <<>>)) /\ UNCHANGED hist
    \/ Store_Lock(t) /\ UNCHANGED hist
    \/ Store_Check(t) /\ UNCHANGED hist
    \/ Store_Set(t) /\ UNCHANGED hist
    \/ Store_Unlock(t) /\ UNCHANGED hist
    \/ Slice_Make(t) /\ UNCHANGED hist
    \/ Travel_RLock(t) /\ UNCHANGED hist
    \/ Travel_Visit(t) /\ UNCHANGED hist
    \/ Travel_Return(t) /\ UNCHANGED hist
SpecSliceConc == Init /\ [][NextSliceConc]_vars

\* the keys of the specification with one traveller: one more than ConcKeys,
\* for a traversal of two nodes and more
TravelKeys == 1..(NumConcKeys + 1)

\* the goroutine that stores and deletes keys in that specification
Writers == {2}

\* the test's goroutine travels the container, with one filter or none,
\* while a second goroutine stores and deletes keys and it and the further
\* goroutines clear the container
NextTravelConc == \E t \in Threads :
    \/ (t \in SeqThreads /\ \E mode \in Modes, fs \in FilterSeqs(1) :
           Travel(t, mode, fs)) /\ UNCHANGED hist
    \/ (t \in Writers /\ \E k \in TravelKeys : Store(t, k, ValOf(k)))
           /\ UNCHANGED hist
    \/ (t \in Writers /\ \E k \in TravelKeys : Delete(t, k))
           /\ UNCHANGED hist
    \/ (t \notin SeqThreads /\ Clear(t)) /\ UNCHANGED hist
    \/ Travel_RLock(t) /\ UNCHANGED hist
    \/ Travel_Visit(t) /\ UNCHANGED hist
    \/ Travel_Return(t) /\ UNCHANGED hist
    \/ Store_Lock(t) /\ UNCHANGED hist
    \/ Store_Check(t) /\ UNCHANGED hist
    \/ Store_Set(t) /\ UNCHANGED hist
    \/ Store_Unlock(t) /\ UNCHANGED hist
    \/ Delete_Lock(t) /\ UNCHANGED hist
    \/ Delete_Remove(t) /\ UNCHANGED hist
    \/ Delete_Delete(t) /\ UNCHANGED hist
    \/ Delete_Unlock(t) /\ UNCHANGED hist
    \/ Clear_Lock(t) /\ UNCHANGED hist
    \/ Clear_Keys(t) /\ UNCHANGED hist
    \/ Clear_Items(t) /\ UNCHANGED hist
    \/ Clear_Unlock(t) /\ UNCHANGED hist
SpecTravelConc == Init /\ [][NextTravelConc]_vars

\* NumThreads goroutines call all the methods concurrently.  Lock is taken
\* in its two halves, so that a pending Lock call keeps new readers out.
\* the steps at which goroutine t waits for the mutex
LiveAcquire(t) ==
    \/ Lock_Announce(t) /\ UNCHANGED hist
    \/ Load_RLock(t) /\ UNCHANGED hist
    \/ Len_RLock(t) /\ UNCHANGED hist
    \/ Front_RLock(t) /\ UNCHANGED hist
    \/ Back_RLock(t) /\ UNCHANGED hist
    \/ Item_RLock(t) /\ UNCHANGED hist
    \/ Travel_RLock(t) /\ UNCHANGED hist
\* the other steps of goroutine t inside a method
LiveStep(t) ==
    \/ (mu.p = t /\ Store_Lock(t)) /\ UNCHANGED hist
    \/ Store_Check(t) /\ UNCHANGED hist
    \/ Store_Set(t) /\ UNCHANGED hist
    \/ Store_Unlock(t) /\ UNCHANGED hist
    \/ Load_Body(t) /\ UNCHANGED hist
    \/ LoadOrStore_Check(t) /\ UNCHANGED hist
    \/ LoadOrStore_Return(t) /\ UNCHANGED hist
    \/ Has_Return(t) /\ UNCHANGED hist
    \/ (mu.p = t /\ Delete_Lock(t)) /\ UNCHANGED hist
    \/ Delete_Remove(t) /\ UNCHANGED hist
    \/ Delete_Delete(t) /\ UNCHANGED hist
    \/ Delete_Unlock(t) /\ UNCHANGED hist
    \/ Len_Body(t) /\ UNCHANGED hist
    \/ (mu.p = t /\ Clear_Lock(t)) /\ UNCHANGED hist
    \/ Clear_Keys(t) /\ UNCHANGED hist
    \/ Clear_Items(t) /\ UNCHANGED hist
    \/ Clear_Unlock(t) /\ UNCHANGED hist
    \/ Front_Body(t) /\ UNCHANGED hist
    \/ Back_Body(t) /\ UNCHANGED hist
    \/ Item_Body(t) /\ UNCHANGED hist
    \/ Slice_Make(t) /\ UNCHANGED hist
    \/ Travel_Visit(t) /\ UNCHANGED hist
    \/ Travel_Return(t) /\ UNCHANGED hist
NextLive == \E t \in Threads :
    \/ (\E k \in ConcKeys : Store(t, k, ValOf(k))) /\ UNCHANGED hist
    \/ (\E k \in ConcKeys : Load(t, k)) /\ UNCHANGED hist
    \/ (\E k \in ConcKeys : LoadOrStore(t, k, ValOf(k))) /\ UNCHANGED hist
    \/ (\E k \in ConcKeys : Has(t, k)) /\ UNCHANGED hist
    \/ (\E k \in ConcKeys : Delete(t, k)) /\ UNCHANGED hist
    \/ (LenCall(t)) /\ UNCHANGED hist
    \/ (Clear(t)) /\ UNCHANGED hist
    \/ (Front(t)) /\ UNCHANGED hist
    \/ (Back(t)) /\ UNCHANGED hist
    \/ Walk_Next(t) /\ UNCHANGED hist
    \/ Walk_Prev(t) /\ UNCHANGED hist
    \/ (Slice(t, <<>>)) /\ UNCHANGED hist
    \/ (Reverse(t, <<>>)) /\ UNCHANGED hist
    \/ (\E mode \in Modes : Travel(t, mode, <<>>)) /\ UNCHANGED hist
    \/ Lock_Announce(t) /\ UNCHANGED hist
    \/ Load_RLock(t) /\ UNCHANGED hist
    \/ Len_RLock(t) /\ UNCHANGED hist
    \/ Front_RLock(t) /\ UNCHANGED hist
    \/ Back_RLock(t) /\ UNCHANGED hist
    \/ Item_RLock(t) /\ UNCHANGED hist
    \/ Travel_RLock(t) /\ UNCHANGED hist
    \/ (mu.p = t /\ Store_Lock(t)) /\ UNCHANGED hist
    \/ Store_Check(t) /\ UNCHANGED hist
    \/ Store_Set(t) /\ UNCHANGED hist
    \/ Store_Unlock(t) /\ UNCHANGED hist
    \/ Load_Body(t) /\ UNCHANGED hist
    \/ LoadOrStore_Check(t) /\ UNCHANGED hist
    \/ LoadOrStore_Return(t) /\ UNCHANGED hist
    \/ Has_Return(t) /\ UNCHANGED hist
    \/ (mu.p = t /\ Delete_Lock(t)) /\ UNCHANGED hist
    \/ Delete_Remove(t) /\ UNCHANGED hist
    \/ Delete_Delete(t) /\ UNCHANGED hist
    \/ Delete_Unlock(t) /\ UNCHANGED hist
    \/ Len_Body(t) /\ UNCHANGED hist
    \/ (mu.p = t /\ Clear_Lock(t)) /\ UNCHANGED hist
    \/ Clear_Keys(t) /\ UNCHANGED hist
    \/ Clear_Items(t) /\ UNCHANGED hist
    \/ Clear_Unlock(t) /\ UNCHANGED hist
    \/ Front_Body(t) /\ UNCHANGED hist
    \/ Back_Body(t) /\ UNCHANGED hist
    \/ Item_Body(t) /\ UNCHANGED hist
    \/ Slice_Make(t) /\ UNCHANGED hist
    \/ Travel_Visit(t) /\ UNCHANGED hist
    \/ Travel_Return(t) /\ UNCHANGED hist
\* every goroutine goes on running; a goroutine that waits in RLock is let
\* in when the writer unlocks, and one that waits in Lock gets its turn
SpecLive ==
    /\ Init /\ [][NextLive]_vars
    /\ \A t \in Threads : WF_vars(LiveStep(t)) /\ SF_vars(LiveAcquire(t))

\* goroutine t took a step: when it calls Delete, the container and the key
\* are recorded; the key stays recorded when the next call is the Store of
\* that key, and is forgotten by any other call
RecAgain(t) ==
    /\ pre' = IF pc[t] # "idle" THEN pre
              ELSE IF op'[t].name = "Delete"
              THEN [keys |-> keys, items |-> items]
              ELSE IF op[t].name = "Delete" /\ op[t].k = op'[t].k THEN pre
              ELSE [keys |-> <<>>, items |-> NoItems]
    /\ caller' = [caller EXCEPT ![t].key =
           IF pc[t] # "idle" THEN @
           ELSE IF op'[t].name = "Delete" THEN op'[t].k
           ELSE IF op[t].name = "Delete" /\ op[t].k = op'[t].k THEN @
           ELSE 0]
    /\ log' = log

\* one goroutine stores and deletes keys, among them keys it has deleted
NextAgain == \E t \in SeqThreads :
    \/ (\E k \in Keys, v \in Vals : Store(t, k, v)) /\ RecAgain(t)
    \/ (\E k \in Keys : Delete(t, k)) /\ RecAgain(t)
    \/ Store_Lock(t) /\ RecAgain(t)
    \/ Store_Check(t) /\ RecAgain(t)
    \/ Store_Set(t) /\ RecAgain(t)
    \/ Store_Unlock(t) /\ RecAgain(t)
    \/ Delete_Lock(t) /\ RecAgain(t)
    \/ Delete_Remove(t) /\ RecAgain(t)
    \/ Delete_Delete(t) /\ RecAgain(t)
    \/ Delete_Unlock(t) /\ RecAgain(t)
SpecAgain == Init /\ [][NextAgain]_vars

\* ================================================================ claims
\* the keys of a list, front to back
KeySeq(l) == [i \in 1..Len(l) |-> l[i].Value]
\* the values of container c, front to back
ValSeq(c) == [i \in 1..Len(c.keys) |-> c.items[c.keys[i].Value].v]
\* sequence q backwards
Rev(q) == [i \in 1..Len(q) |-> q[Len(q) + 1 - i]]
\* sequence q without the entries equal to x
Without(q, x) == SelectSeq(q, LAMBDA y : y # x)
\* the values of the logged Store calls, in call order
LogVals == [i \in 1..Len(log.kv) |-> log.kv[i].v]
\* what Load and LoadOrStore return
Result(t) == [v |-> ret[t].v, ok |-> ret[t].ok]

\* the one goroutine of Spec and SpecLog is between two calls
Idle == pc[1] = "idle"
\* its call of the named method has returned
Did(name) == Idle /\ op[1].name = name
\* the key and the value of that call
K1 == op[1].k
V1 == op[1].v
\* the key was in items when the call began
Had == K1 \in DOMAIN pre.items

\* C1: a Store(k, v) followed by Load(k), with no other write in between,
\* returns (v, true), whether k was absent or present before the Store:
\* when Store(k, v) has returned, the lookup of Load(k) gives (v, true).
C1_StoreThenLoad ==
    Did("Store") => LoadOf(items, K1) = [v |-> V1, ok |-> TRUE]

\* C2: Store(k, v) on a key that is already present leaves the order
\* sequence as it was: the keys front to back and Len() do not change.
C2_StoreKeepsOrder ==
    (Did("Store") /\ Had)
        => /\ KeySeq(keys) = KeySeq(pre.keys)
           /\ keys = pre.keys
           /\ ListLen(keys) = ListLen(pre.keys)

\* a Store of a present key that is not the last one has returned
C2_Witness ==
    /\ Did("Store") /\ Had
    /\ Len(pre.keys) >= 2
    /\ pre.keys[Len(pre.keys)].Value # K1

\* C3: after Store calls on distinct keys only (one goroutine, no deletes),
\* Slice() returns the stored values in the order of the Store calls and
\* Reverse() returns them in the opposite order.
C3_SliceInStoreOrder ==
    (log.from = "new" /\ log.ok)
        => /\ Did("Slice") => ret[1].s = LogVals /\ ret[1].err = ""
           /\ Did("Reverse") => ret[1].s = Rev(LogVals) /\ ret[1].err = ""

\* Reverse() has returned after Stores of keys with different values
C3_Witness ==
    /\ log.from = "new" /\ log.ok
    /\ Did("Reverse")
    /\ Len(log.kv) >= 2
    /\ log.kv[1].v # log.kv[2].v

\* C4: whenever no goroutine holds the write lock, the keys of items are
\* the keys of the order sequence, no key is twice in the sequence, and the
\* length of the sequence (Len) is the number of live keys.
C4_Bijection ==
    mu.w = 0
        => /\ DOMAIN items = {keys[i].Value : i \in 1..Len(keys)}
           /\ \A i, j \in 1..Len(keys) : keys[i].Value = keys[j].Value => i = j
           /\ ListLen(keys) = Cardinality(DOMAIN items)
           /\ \A k \in DOMAIN items :
                  items[k].k = k /\ ElemOf(keys, items[k].e).Value = k

\* nobody holds the write lock, every key is live, a Delete has returned
\* and another goroutine is about to take the write lock
C4_Witness ==
    /\ mu.w = 0
    /\ Len(keys) = NumConcKeys
    /\ \E t \in Threads : pc[t] = "idle" /\ op[t].name = "Delete"
    /\ \E t \in Threads : pc[t] \in {"clr_lock", "store_lock", "del_lock"}

\* C5: when all goroutines race LoadOrStore on one absent key, exactly one
\* of them gets loaded = false.
C5_OneStores ==
    (\A t \in Threads : pc[t] = "idle" /\ op[t].name = "LoadOrStore")
        => Cardinality({t \in Threads : ~ret[t].ok}) = 1

\* C6: LoadOrStore(k, v) on an absent key stores v and returns (v, false),
\* and a following Load(k) returns (v, true).
C6_LoadOrStoreAbsent ==
    (Did("LoadOrStore") /\ ~Had)
        => /\ Result(1) = [v |-> V1, ok |-> FALSE]
           /\ LoadOf(items, K1) = [v |-> V1, ok |-> TRUE]

\* C7: LoadOrStore(k, v) on a key present with value w returns (w, true)
\* and leaves the container as it was.
C7_LoadOrStorePresent ==
    (Did("LoadOrStore") /\ Had)
        => /\ Result(1) = [v |-> pre.items[K1].v, ok |-> TRUE]
           /\ keys = pre.keys
           /\ items = pre.items

\* LoadOrStore of a present key, with a value other than the stored one,
\* has returned
C7_Witness ==
    /\ Did("LoadOrStore") /\ Had
    /\ pre.items[K1].v # V1
    /\ Len(pre.keys) >= 2

\* C8: Delete(k) of a key that is not present reports no error and leaves
\* Len(), Slice(), Reverse() and every Load result as before the call.
C8_DeleteAbsent ==
    (Did("Delete") /\ ~Had)
        => /\ ret[1].err = ""
           /\ keys = pre.keys
           /\ items = pre.items
           /\ ListLen(keys) = ListLen(pre.keys)
           /\ ValSeq([keys |-> keys, items |-> items]) = ValSeq(pre)
           /\ \A k \in Keys : LoadOf(items, k) = LoadOf(pre.items, k)

\* Delete of a missing key has returned on a container of two or more keys
C8_Witness ==
    /\ Did("Delete") /\ ~Had
    /\ Len(pre.keys) >= 2

\* C9: Delete(k) of a present key removes it from items and from the order
\* sequence: afterwards Has(k) is false, Load(k) returns (zero, false),
\* Len() is one less, and the other keys keep their values and their order.
C9_DeletePresent ==
    (Did("Delete") /\ Had)
        => /\ K1 \notin DOMAIN items
           /\ LoadOf(items, K1) = [v |-> ZeroV, ok |-> FALSE]
           /\ ListLen(keys) = ListLen(pre.keys) - 1
           /\ KeySeq(keys) = Without(KeySeq(pre.keys), K1)
           /\ DOMAIN items = DOMAIN pre.items \ {K1}
           /\ \A x \in DOMAIN items : items[x] = pre.items[x]

\* the Delete of the middle one of three keys has returned
C9_Witness ==
    /\ Did("Delete") /\ Had
    /\ Len(pre.keys) >= 3
    /\ pre.keys[2].Value = K1

\* the container New returns after the Store calls of sequence kv
Build(kv) ==
    [keys |-> [i \in 1..Len(kv) |-> [id |-> <<kv[i].k, 1>>, Value |-> kv[i].k]],
     items |-> [k \in {kv[i].k : i \in 1..Len(kv)} |->
                  LET i == CHOOSE i \in 1..Len(kv) : kv[i].k = k
                  IN newItem(k, kv[i].v, <<k, 1>>)]]

\* C10: after Clear(), Len() is 0, Slice() and Reverse() are empty, Front()
\* and Back() return nil, and Store calls that follow give the Len, the Load
\* results and the Slice order they give on the container New returns.
C10_Clear ==
    /\ (Idle /\ log.from = "clear" /\ log.kv = <<>>)
        => /\ keys = <<>> /\ items = NoItems
           /\ Did("Len") => ret[1].n = 0
           /\ (Did("Slice") \/ Did("Reverse")) => ret[1].s = <<>>
           /\ (Did("Front") \/ Did("Back")) => ret[1].item = NilItem
    /\ (Idle /\ log.ok)
        => /\ [keys |-> keys, items |-> items] = Build(log.kv)
           /\ Did("Len") => ret[1].n = Len(log.kv)
           /\ Did("Slice") => ret[1].s = LogVals
           /\ Did("Reverse") => ret[1].s = Rev(LogVals)
           /\ Did("Load") => Result(1) = LoadOf(Build(log.kv).items, K1)

\* Slice() has returned after a Clear() and two Stores that followed it
C10_Witness ==
    /\ log.from = "clear" /\ log.ok
    /\ Len(log.kv) >= 2
    /\ log.kv[1].v # log.kv[2].v
    /\ Did("Slice")

\* the traversal the one goroutine called has returned
Traversed ==
    Idle /\ op[1].name \in {"Slice", "Reverse", "Travel", "Range"}
         /\ ret[1].err = ""
\* the calls of filters and visitor it made, in the order it made them
Calls == ret[1].calls
\* the nodes of the container in the direction of the traversal, each with
\* the number of nodes before it
Nodes ==
    LET q == IF IsForward(op[1]) THEN keys ELSE Rev(keys)
    IN [i \in 1..Len(q) |->
          [idx |-> i - 1, k |-> q[i].Value, v |-> items[q[i].Value].v]]
\* every filter of sequence fs wants node n
AllWant(fs, n) == \A j \in 1..Len(fs) : Want(fs[j], n.idx, n.k, n.v)
\* calls c and d are about the same node
SameNode(c, d) == c.idx = d.idx /\ c.k = d.k /\ c.v = d.v
\* the nodes that all filters of the call want
Accepted == SelectSeq(Nodes, LAMBDA n : AllWant(op[1].fs, n))

\* C11: in one Travel call the filters are called in the order supplied, the
\* calls for a node end at the first filter that returns false, the visitor
\* is called for a node exactly when every filter returned true for it, and
\* Slice(f1..fn) is the subsequence of Slice() that all filters want.
C11_FiltersAnd ==
    Traversed =>
        LET fs == op[1].fs
            n == Len(fs)
        IN /\ \A j \in 1..Len(Calls) :
                  LET c == Calls[j]
                  IN /\ c.f \in 0..n
                     /\ c.f >= 1 => c.r = Want(fs[c.f], c.idx, c.k, c.v)
                     \* a filter is called first, or after the one before it
                     \* returned true for the node
                     /\ c.f >= 2 => /\ Calls[j - 1].f = c.f - 1
                                    /\ Calls[j - 1].r
                                    /\ SameNode(Calls[j - 1], c)
                     \* the visitor is called after the last filter
                     \* returned true for the node
                     /\ (c.f = 0 /\ n >= 1) => /\ Calls[j - 1].f = n
                                               /\ Calls[j - 1].r
                                               /\ SameNode(Calls[j - 1], c)
                     \* after true comes the next filter or the visitor
                     /\ (c.f >= 1 /\ c.r) =>
                            /\ j < Len(Calls)
                            /\ Calls[j + 1].f = (IF c.f = n THEN 0 ELSE c.f + 1)
                            /\ SameNode(Calls[j + 1], c)
                     \* after false comes another node
                     /\ (c.f >= 1 /\ ~c.r /\ j < Len(Calls)) =>
                            /\ Calls[j + 1].f = 1
                            /\ ~SameNode(Calls[j + 1], c)
           /\ op[1].vis = "slice" =>
                  ret[1].s = [i \in 1..Len(Accepted) |-> Accepted[i].v]

\* Slice with two filters has returned: the first filter rejected a node,
\* the second rejected another, and both wanted a third
C11_Witness ==
    /\ Traversed /\ op[1].name = "Slice"
    /\ Len(op[1].fs) = 2
    /\ \E j \in 1..Len(Calls) : Calls[j].f = 1 /\ ~Calls[j].r
    /\ \E j \in 1..Len(Calls) : Calls[j].f = 2 /\ ~Calls[j].r
    /\ Len(ret[1].s) >= 1
    /\ Len(ret[1].s) < Len(keys)

\* the place, from 1, of key k in the list front to back
PlaceOf(k) == CHOOSE i \in 1..Len(keys) : keys[i].Value = k

\* C12: the index a Travel call hands to the filters and to the visitor for
\* a node is the number of nodes before it in the direction of the travel,
\* nodes the filters rejected counted: in Forward mode the i-th live key has
\* index i-1, in Reverse mode the last key has index 0, and the visitor gets
\* the index the filters of the node got.
C12_Index ==
    Traversed =>
        \A j \in 1..Len(Calls) :
            LET c == Calls[j]
            IN /\ c.idx >= 0
               /\ \E i \in 1..Len(Nodes) :
                      Nodes[i] = [idx |-> c.idx, k |-> c.k, v |-> c.v]
               /\ c.idx < Len(Nodes) /\ Nodes[c.idx + 1].k = c.k
               /\ IsForward(op[1]) => c.idx = PlaceOf(c.k) - 1
               /\ ~IsForward(op[1]) => c.idx = Len(keys) - PlaceOf(c.k)
               /\ (~IsForward(op[1]) /\ c.k = keys[Len(keys)].Value)
                      => c.idx = 0
               /\ \A i \in 1..Len(Calls) :
                      Calls[i].k = c.k => Calls[i].idx = c.idx

\* TravelReverse with a filter has returned: the filter rejected the node
\* it came to first, and the visitor was called for the next one, whose key
\* is not at the place in the list that its number says
C12_Witness ==
    /\ Traversed /\ op[1].name = "Travel" /\ ~IsForward(op[1])
    /\ Len(op[1].fs) >= 1
    /\ \E j \in 1..Len(Calls) : Calls[j].f = 1 /\ ~Calls[j].r /\ Calls[j].idx = 0
    /\ \E j \in 1..Len(Calls) :
           /\ Calls[j].f = 0 /\ Calls[j].idx = 1
           /\ PlaceOf(Calls[j].k) # Calls[j].k

\* the indexes of the nodes the call made calls about
Visited == {Calls[j].idx : j \in 1..Len(Calls)}
\* the visitor returned true in one of its calls
Stopped == \E j \in 1..Len(Calls) : Calls[j].f = 0 /\ Calls[j].r

\* C13: once the visitor has returned true for a node, Travel calls no
\* filter and no visitor for a later node; while the visitor returns false
\* the traversal goes on to the next node, to the end of the sequence.
C13_VisitorStops ==
    Traversed =>
        /\ \A j \in 1..Len(Calls) :
               (Calls[j].f = 0 /\ Calls[j].r)
                   => /\ j = Len(Calls)
                      /\ Visited = 0..Calls[j].idx
        /\ ~Stopped => Visited = 0..(Len(Nodes) - 1)

\* Travel has returned: its visitor returned false for a node and true for
\* the next one, and nodes were left
C13_Witness ==
    /\ Traversed /\ op[1].name = "Travel"
    /\ Len(Calls) >= 2
    /\ Calls[Len(Calls)].f = 0 /\ Calls[Len(Calls)].r
    /\ \E j \in 1..Len(Calls) : Calls[j].f = 0 /\ ~Calls[j].r
    /\ Calls[Len(Calls)].idx < Len(Nodes) - 1

\* C14: Range(f) calls f for the keys and values in insertion order, goes
\* on to the next item while f returns true and stops when f returns false:
\* an f that always returns true is called once for every item.
C14_Range ==
    (Traversed /\ op[1].name = "Range")
        => /\ \A j \in 1..Len(Calls) :
                  /\ Calls[j].k = keys[j].Value
                  /\ Calls[j].v = items[keys[j].Value].v
                  /\ ~Calls[j].r => j = Len(Calls)
           /\ (\A j \in 1..Len(Calls) : Calls[j].r) => Len(Calls) = Len(keys)

\* goroutine t is in its loop, between two calls
InLoop(t) == caller[t].key # 0 /\ pc[t] = "idle"

\* C15: goroutines loop Store(k, v); Load(k); Delete(k); Has(k), each on a
\* key no other goroutine touches and that was absent: every Load returns
\* (v, true), every Has returns false, and when all goroutines are at the
\* end of a loop, Len() is the number of keys that were live before they
\* started, and those keys have their values and their order.
C15_Hammer ==
    /\ \A t \in Threads :
           /\ (InLoop(t) /\ op[t].name = "Load")
                  => Result(t) = [v |-> caller[t].v, ok |-> TRUE]
           /\ (InLoop(t) /\ op[t].name = "Has") => ~ret[t].ok
    /\ (\A t \in Threads : InLoop(t) /\ op[t].name = "Has")
           => /\ ListLen(keys) = Cardinality(DOMAIN pre.items)
              /\ keys = pre.keys
              /\ items = pre.items

\* keys were stored before the start; a goroutine has loaded its value,
\* which is not the value another one stored, while that other one is
\* inside Delete with the write lock
C15_Witness ==
    /\ Len(pre.keys) = NumConcKeys
    /\ \E t, u \in Threads :
           /\ InLoop(t) /\ op[t].name = "Load"
           /\ pc[u] = "del_delete" /\ mu.w = u
           /\ caller[u].v # caller[t].v

\* the keys the walk of the one goroutine has come to, in its order
Walk == caller[1].walk
\* the walk is at its n-th item of sequence q of keys, or is over
WalkOf(q) ==
    /\ Len(Walk) <= Len(q)
    /\ Walk = SubSeq(q, 1, Len(Walk))
    /\ IF ret[1].item = NilItem
       THEN Walk = q
       ELSE Len(Walk) >= 1 /\ ret[1].item = items[Walk[Len(Walk)]]

\* C16: with no mutation going on, the walk i := Front(); i != nil;
\* i = i.Next() comes to every live item once, in insertion order, and then
\* gets nil; the walk with Back() and Prev() comes to them in the opposite
\* order; on an empty container Front() and Back() return nil.
C16_CursorWalk ==
    /\ (Idle /\ op[1].name \in {"Front", "Next"}) => WalkOf(KeySeq(keys))
    /\ (Idle /\ op[1].name \in {"Back", "Prev"}) => WalkOf(Rev(KeySeq(keys)))
    /\ ((Did("Front") \/ Did("Back")) /\ keys = <<>>) => ret[1].item = NilItem

\* the walk from the back over three keys, stored in another order than
\* that of their numbers, has got nil from Prev
C16_Witness ==
    /\ Did("Prev") /\ ret[1].item = NilItem
    /\ Len(keys) >= 3
    /\ keys[1].Value > keys[2].Value
    /\ Len(Walk) = Len(keys)

\* the pairs from place i on of the container, with commas between them
RECURSIVE PairsFrom(_)
PairsFrom(i) ==
    IF i > Len(keys) THEN <<>>
    ELSE <<EncKey(keys[i].Value), Rune(":"), EncVal(items[keys[i].Value].v)>>
         \o (IF i < Len(keys) THEN <<Rune(",")>> ELSE <<>>)
         \o PairsFrom(i + 1)
\* the object MarshalJSON is to write
Object == <<Rune("{")>> \o PairsFrom(1) \o <<Rune("}")>>

\* C17: when every key and value is encoded without error, MarshalJSON
\* returns '{', the pairs key ':' value of the live items in insertion
\* order with one ',' between two pairs and none after the last, and '}';
\* for an empty container it returns "{}".
C17_MarshalJSON ==
    (Did("MarshalJSON") /\ \A j \in 1..Len(Calls) : Calls[j].ok)
        => /\ ret[1].err = ""
           /\ ret[1].s = Object
           /\ keys = <<>> => ret[1].s = <<Rune("{"), Rune("}")>>
           /\ Len(ret[1].s) = IF keys = <<>> THEN 2 ELSE 4 * Len(keys) + 1

\* MarshalJSON has returned the object of three keys that were stored in
\* another order than that of their numbers
C17_Witness ==
    /\ Did("MarshalJSON") /\ ret[1].err = ""
    /\ Len(keys) >= 3
    /\ keys[1].Value > keys[2].Value
    /\ Len(ret[1].s) > 2

\* an encoding of a key or of a value failed in the MarshalJSON call
EncodeFailed == \E j \in 1..Len(Calls) : ~Calls[j].ok

\* C18: when the encoding of a key or of a value fails, MarshalJSON returns
\* the error and nil bytes and encodes nothing after the item that failed;
\* the container is as before the call, and the result is never an error
\* with bytes, nor bytes that are not the whole object.
C18_EncodeError ==
    Did("MarshalJSON")
        => /\ EncodeFailed
                 => /\ ret[1].err = "encode"
                    /\ ret[1].s = <<>>
                    /\ \A j \in 1..Len(Calls) : ~Calls[j].ok => j = Len(Calls)
                    /\ Len(Calls) <= 2 * Len(keys)
           /\ keys = pre.keys /\ items = pre.items
           /\ \/ ret[1].err # "" /\ ret[1].s = <<>>
              \/ ret[1].err = "" /\ ret[1].s = Object

\* MarshalJSON has returned after the value of the second of three items
\* could not be encoded
C18_Witness ==
    /\ Did("MarshalJSON")
    /\ Len(keys) >= 3
    /\ Len(Calls) = 4 /\ ~Calls[4].ok
    /\ Calls[4].x = EncVal(items[keys[2].Value].v)

\* C19: MarshalJSON, like every operation, reads the order sequence and the
\* index under the lock, and so, while other goroutines call Store and
\* Delete, every key it reads from the sequence has its record in the index
\* when it looks the key up: it never dereferences a missing record.
C19_MarshalLocked ==
    \A t \in Threads :
        /\ pc[t] = "mj_val" => ValueOf(loc[t].cur) \in DOMAIN items
        /\ (pc[t] = "idle" /\ op[t].name = "MarshalJSON")
               => ret[t].err # "nil pointer dereference"

\* C20: Slice() and Reverse() that run while other goroutines store new
\* keys never write past the buffer made beforehand: the traversal accepts
\* no more values than the length slice took for the buffer, and the result
\* is the accepted values, cut to their number.
C20_SliceBuffer ==
    \A t \in Threads :
        /\ (pc[t] = "travel_loop" /\ op[t].vis = "slice")
               => loc[t].num <= loc[t].n
        /\ (pc[t] = "idle" /\ op[t].name \in {"Slice", "Reverse"})
               => /\ ret[t].err = ""
                  /\ Len(ret[t].s) = ret[t].n

\* the one travelling goroutine is inside Travel's loop
InTravel == pc[1] = "travel_loop"
\* the calls Travel makes for the first n nodes of the container as it is
\* now, the result of the visitor left open
RECURSIVE CallsUpTo(_)
CallsUpTo(n) ==
    IF n = 0 THEN <<>>
    ELSE LET z == Nodes[n]
         IN CallsUpTo(n - 1)
            \o FilterCalls(op[1].fs, z.idx, z.k, z.v)
            \o (IF AllWant(op[1].fs, z)
                THEN <<VisitorCall(z.idx, z.k, z.v, FALSE)>> ELSE <<>>)
\* calls q with the result of the visitor left open
Open(q) == [j \in 1..Len(q) |-> IF q[j].f = 0 THEN [q[j] EXCEPT !.r = FALSE]
                                              ELSE q[j]]
\* the calls made so far are those for a first part of the container as it
\* is now, and the read lock is held
OneState ==
    InTravel => /\ 1 \in mu.r /\ mu.w = 0
                /\ loc[1].idx <= Len(keys)
                /\ Open(loc[1].calls) = CallsUpTo(loc[1].idx)
\* between two steps inside the loop the container is not written, and
\* Travel returns the calls it made
NoWrite ==
    /\ (InTravel /\ pc'[1] = "travel_loop") => keys' = keys /\ items' = items
    /\ (InTravel /\ pc'[1] = "idle")
           => /\ keys' = keys /\ items' = items
              /\ ret'[1].err = "" /\ ret'[1].calls = loc[1].calls

\* C21: one Travel call holds the read lock from before its first call of
\* a filter or the visitor until after its last, so no Store, Delete or
\* Clear of another goroutine takes effect during the call: the (index, key,
\* value) it presents are the filtered content of one state of the
\* container, also while writers run.
C21_TravelOneState == []OneState /\ [][NoWrite]_vars

\* Travel has made calls for a node and has a node left, while another
\* goroutine waits for the write lock
C21_Witness ==
    /\ InTravel
    /\ Len(loc[1].calls) >= 1
    /\ loc[1].cur # NilId /\ ~loc[1].skip
    /\ \E u \in Threads : pc[u] \in {"store_lock", "del_lock", "clr_lock"}

\* goroutine t holds the lock only inside a method, never twice, and not
\* while it calls Lock or RLock; writer and readers exclude each other
LockDiscipline ==
    /\ mu.w # 0 => mu.r = {}
    /\ \A t \in Threads :
           /\ ~(t \in mu.r /\ mu.w = t)
           /\ pc[t] = "idle" => t \notin mu.r /\ mu.w # t /\ mu.p # t
           /\ pc[t] \in LockPcs \cup RLockPcs => t \notin mu.r /\ mu.w # t
           /\ mu.p = t => pc[t] \in LockPcs

\* C22: with concurrent calls of all the methods, whose visitors and
\* filters return and do not call the container, no deadlock is reached:
\* a call never takes the lock while it holds it, it gives the lock back
\* when it returns, and under fair scheduling every call returns.
C22_NoDeadlock ==
    /\ []LockDiscipline
    /\ \A t \in Threads : (pc[t] # "idle") ~> (pc[t] = "idle")

\* a goroutine's Lock call is pending while another goroutine holds the
\* read lock inside Travel
C22_Witness ==
    \E t, u \in Threads :
        /\ mu.p = t /\ pc[t] \in LockPcs
        /\ u \in mu.r /\ pc[u] = "travel_loop"

\* Store(k, v) has returned, and the call before it was Delete(k)
StoredAgain == Did("Store") /\ caller[1].key = K1

\* C23: a key that is deleted and then stored again gets a new node at the
\* tail: after Delete(k) and Store(k, v), k is the last key of the forward
\* order (Back() is k, Slice() ends with v), Load(k) returns (v, true), and
\* the other keys keep their order.
C23_StoredAgainAtTail ==
    StoredAgain
        => /\ ListBack(keys).Value = K1
           /\ ItemAt(items, ListBack(keys).Value) = newItem(K1, V1, ListBack(keys).id)
           /\ ValSeq([keys |-> keys, items |-> items])[Len(keys)] = V1
           /\ LoadOf(items, K1) = [v |-> V1, ok |-> TRUE]
           /\ KeySeq(keys) = Append(Without(KeySeq(pre.keys), K1), K1)
           /\ \A x \in DOMAIN items \ {K1} : items[x] = pre.items[x]

\* the first of three keys was deleted and stored again with another value
C23_Witness ==
    /\ StoredAgain
    /\ Len(pre.keys) >= 3
    /\ pre.keys[1].Value = K1
    /\ pre.items[K1].v # V1

====
